---- MODULE Spec2Model ----
(***************************************************************************)
(* Model of the evaluation core of hurl:                                   *)
(*   - the backtracking parser combinators zero_or_more and choice         *)
(*     (jsonpath/parser/combinators.rs), specifications Spec and ZomSpec;    *)
(*   - the assertion evaluator (runner/assert.rs), specification           *)
(*     AssertSpec;                                                         *)
(*   - the xpath filter (runner/filter/xpath.rs) over eval_expr            *)
(*     (runner/expr.rs), specification XpathSpec;                          *)
(*   - the result serializer (json/result.rs), specification JsonSpec.     *)
(***************************************************************************)
EXTENDS Integers, Sequences, FiniteSets, TLC

\* ------------------------------------------------------------------ bounds
\* longest source text given to the Reader
MaxLen == 3
\* largest number of alternatives handed to choice
MaxAlts == 3
\* zero_or_more: number of loop iterations after which the vector v is no
\* longer grown (a run that gets there has not returned)
MaxIter == MaxLen + 2

\* longest filter chain of an explicit assert
MaxFilters == 2

\* most entries of a run, and most asserts of an entry
MaxEntries == 2
MaxAsserts == 2

\* the characters of a source text: an ordinary one and a line break
Chars == {"a", "\n"}
\* the values (T) a parse function can produce
Values == {1, 2}
\* the kinds of ParseError a parse function can report
ErrKinds == {"Expecting", "Eof"}

VARIABLES
    buffer,     \* Reader.buffer: the source text
    state,      \* Reader.state: [cursor, pos: [line, column]]
    op,         \* the combinator being run: "none", "choice", "zero_or_more"
    pc,         \* "idle", "loop", "done", "panic"
    nfs,        \* choice: fs.len()
    pos,        \* choice: index of the alternative of the current iteration
    start,      \* choice: `start`; zero_or_more: `initial_state`
    v,          \* zero_or_more: the vector v
    result,     \* the value returned by the combinator
    fdef,       \* zero_or_more: what f has been seen to do, per reader state
    pre,        \* reader state when the combinator was called
    applied,    \* history: the applications of parse functions, in order
    apc,            \* assertion evaluator: "idle", "query", "filters",
                    \* "predicate", "built", "checked"
    filters,        \* assert.filters: the source_info of each filter
    query_result,   \* eval_explicit_assert: query_result
    actual,         \* eval_explicit_assert: actual
    assert_result,  \* the AssertResult built
    error_out,      \* what AssertResult::error() returned
    calls,          \* history: the collaborators called, in order
    xpc,            \* xpath filter: "idle", "gate", "template", "query",
                    \* "done", "panic"
    xin,            \* the arguments of eval_xpath / eval_xpath_string
    xexpr,          \* eval_xpath_string: expr, the resolved template
    xresult,        \* what eval_xpath / eval_xpath_string returned
    xcalls,         \* history: the collaborators the filter called
    jpc,            \* serializer: "idle", "done"
    jin,            \* the value serialized
    json_out        \* the JSON value produced

pvars == <<buffer, state, op, pc, nfs, pos, start, v, result, fdef, pre, applied>>
avars == <<apc, filters, query_result, actual, assert_result, error_out, calls>>
xvars == <<xpc, xin, xexpr, xresult, xcalls>>
jvars == <<jpc, jin, json_out>>
vars == <<pvars, avars, xvars, jvars>>

\* ------------------------------------------------------------------ Reader
InitState == [cursor |-> 0, pos |-> [line |-> 1, column |-> 1]]

\* Reader::is_eof
is_eof(st) == st.cursor >= Len(buffer)

\* Reader::read: consumes one character, tracking line and column
read(st) ==
    IF is_eof(st) THEN st
    ELSE [cursor |-> st.cursor + 1,
          pos |-> IF buffer[st.cursor + 1] = "\n"
                  THEN [line |-> st.pos.line + 1, column |-> 1]
                  ELSE [line |-> st.pos.line, column |-> st.pos.column + 1]]

RECURSIVE readn(_, _)
\* k successive reads
readn(st, k) == IF k = 0 THEN st ELSE readn(read(st), k - 1)

\* what is left to read from st
Remaining(st) == Len(buffer) - st.cursor

\* -------------------------------------------------------- parse functions
NoErr == [pos |-> [line |-> 0, column |-> 0], recoverable |-> FALSE, kind |-> "none"]
Ok(x) == [tag |-> "Ok", val |-> x, err |-> NoErr]
Err(e) == [tag |-> "Err", val |-> 0, err |-> e]
NoResult == [tag |-> "None", val |-> 0, err |-> NoErr]

\* ParseError { pos, recoverable, kind }
ParseError(p, rec, kd) == [pos |-> p, recoverable |-> rec, kind |-> kd]

\* The outcomes of one application of a ParseFunc at reader state st: it
\* reads k characters and then returns Ok(value) or Err(ParseError).
Outcomes(st) ==
    UNION { { [k |-> k, res |-> r] :
                r \in { Ok(x) : x \in Values } \cup
                      { Err(ParseError(readn(st, k).pos, rec, kd)) :
                            rec \in BOOLEAN, kd \in ErrKinds } } :
            k \in 0..Remaining(st) }

\* one entry of the history
Application(i, from, o) ==
    [f |-> i, from |-> from, to |-> readn(from, o.k), res |-> o.res]

\* ------------------------------------------------------------ choice
\* combinators.rs:54  pos == fs.len() - 1
IsLast(i, n) == i = n - 1

\* variant: any error makes choice go on to the next alternative
IsRecoverableAnyErr(r) == r.tag = "Err"

\* combinators.rs:58-60  Err(ParseError { recoverable: true, .. })
IsRecoverable(r) == r.tag = "Err" /\ r.err.recoverable

\* variant: only the cursor is put back, not the line and column
ChoiceRestoreCursorOnly(cur, saved) == [cur EXCEPT !.cursor = saved.cursor]

\* combinators.rs:61  reader.state = start
ChoiceRestore(cur, saved) == saved

CallChoice ==
    /\ pc = "idle"
    /\ \E n \in 0..MaxAlts :
         /\ nfs' = n
         /\ pc' = IF n = 0 THEN "panic" ELSE "loop"
    /\ op' = "choice"
    /\ pos' = 0
    /\ pre' = state
    /\ UNCHANGED <<buffer, state, start, v, result, fdef, applied>>
    /\ UNCHANGED <<avars, xvars, jvars>>

\* one iteration of the for loop, the alternative answering o
ChoiceIter(o) ==
    LET after == readn(state, o.k) IN
    /\ start' = state
    /\ applied' = Append(applied, Application(pos, state, o))
    /\ IF IsLast(pos, nfs)
       THEN /\ state' = after
            /\ result' = o.res
            /\ pc' = "done"
            /\ pos' = pos
       ELSE IF IsRecoverable(o.res)
       THEN /\ state' = ChoiceRestore(after, state)
            /\ result' = result
            /\ pc' = "loop"
            /\ pos' = pos + 1
       ELSE /\ state' = after
            /\ result' = o.res
            /\ pc' = "done"
            /\ pos' = pos

ChoiceStep ==
    /\ pc = "loop"
    /\ op = "choice"
    /\ \E o \in Outcomes(state) : ChoiceIter(o)
    /\ UNCHANGED <<buffer, op, nfs, v, fdef, pre>>
    /\ UNCHANGED <<avars, xvars, jvars>>

\* ------------------------------------------------------------ zero_or_more
\* variant: only the cursor is put back, not the line and column
ZomRestoreCursorOnly(cur, saved) == [cur EXCEPT !.cursor = saved.cursor]

\* combinators.rs:38-39  p.state.pos / p.state.cursor = initial_state.*
ZomRestore(cur, saved) ==
    [cur EXCEPT !.pos = saved.pos, !.cursor = saved.cursor]

\* variant: every failure ends the repetition with the list collected
ZomReturnAlwaysOk(e, vv) == Ok(vv)
\* variant: every failure is propagated
ZomReturnAlwaysErr(e, vv) == Err(e)

\* combinators.rs:37-43  if e.recoverable { Ok(v) } else { Err(e) }
ZomReturn(e, vv) == IF e.recoverable THEN Ok(vv) ELSE Err(e)

\* f is one function: applied again to a reader state it has already been
\* applied to, it does what it did then
FOutcomes(st) ==
    IF st \in DOMAIN fdef THEN {fdef[st]} ELSE Outcomes(st)

CallZeroOrMore ==
    /\ pc = "idle"
    /\ op' = "zero_or_more"
    /\ pc' = "loop"
    /\ pre' = state
    /\ v' = <<>>
    /\ UNCHANGED <<buffer, state, nfs, pos, start, result, fdef, applied>>
    /\ UNCHANGED <<avars, xvars, jvars>>

\* combinators.rs:28-30
ZomEof ==
    /\ pc = "loop"
    /\ op = "zero_or_more"
    /\ is_eof(state)
    /\ start' = state
    /\ result' = Ok(v)
    /\ pc' = "done"
    /\ UNCHANGED <<buffer, state, op, nfs, pos, v, fdef, pre, applied>>
    /\ UNCHANGED <<avars, xvars, jvars>>

\* combinators.rs:32-45, f answering o
ZomIter(o) ==
    LET after == readn(state, o.k) IN
    /\ start' = state
    /\ applied' = Append(applied, Application(Len(applied), state, o))
    /\ fdef' = IF state \in DOMAIN fdef THEN fdef
               ELSE [s \in DOMAIN fdef \cup {state} |->
                        IF s = state THEN o ELSE fdef[s]]
    /\ IF o.res.tag = "Ok"
       THEN /\ v' = Append(v, o.res.val)
            /\ state' = after
            /\ result' = result
            /\ pc' = "loop"
       ELSE /\ state' = IF o.res.err.recoverable
                        THEN ZomRestore(after, state)
                        ELSE after
            /\ result' = ZomReturn(o.res.err, v)
            /\ v' = v
            /\ pc' = "done"

ZomStep ==
    /\ pc = "loop"
    /\ op = "zero_or_more"
    /\ ~is_eof(state)
    /\ Len(v) < MaxIter
    /\ \E o \in FOutcomes(state) : ZomIter(o)
    /\ UNCHANGED <<buffer, op, nfs, pos, pre>>
    /\ UNCHANGED <<avars, xvars, jvars>>

\* ------------------------------------------------------------ runner values
\* SourceInfo, reduced to its start position
SourceInfo(l, c) == [line |-> l, column |-> c]
\* where the parts of an assert `query filter... predicate` stand
QueryInfo == SourceInfo(1, 1)
FilterInfo(i) == SourceInfo(1, 10 + 6 * i)
PredicateInfo == SourceInfo(1, 40)
\* where an implicit assert (version, status, header, body) stands
ImplicitInfo == SourceInfo(2, 1)

\* Value, with its Display rendering
Value(t, txt) == [type |-> t, text |-> txt]
RunnerValues == {Value("integer", "3"), Value("string", "3"), Value("string", "x")}
\* Value::to_string
ValueToString(val) == val.text

\* RunnerError { source_info, kind, assert }; RunnerError::new
RunnerError(si, kd, as) == [source_info |-> si, kind |-> kd, assert |-> as]

None == [tag |-> "None"]
Some(x) == [tag |-> "Some", some |-> x]
ROk(x) == [tag |-> "Ok", ok |-> x]
RErr(e) == [tag |-> "Err", err |-> e]
NoOutcome == [tag |-> "none"]

\* decimal rendering of a u64 (to_string)
Digit(d) == <<"0", "1", "2", "3", "4", "5", "6", "7", "8", "9">>[d + 1]
RECURSIVE Decimal(_)
Decimal(n) == IF n < 10 THEN <<Digit(n)>> ELSE Append(Decimal(n \div 10), Digit(n % 10))

\* ------------------------------------------------------------ collaborators
\* eval_query: Ok(Some(value)), Ok(None) or an error at the query
QueryOutcomes ==
    { ROk(Some(x)) : x \in RunnerValues } \cup {ROk(None)} \cup
    { RErr(RunnerError(QueryInfo, kd, FALSE)) :
        kd \in {[name |-> "QueryInvalidXml"], [name |-> "QueryInvalidJson"]} }

\* eval_filters over a chain fs: Ok(Some(value)), Ok(None) or an error of
\* one of the filters; the markup filter reports invalid markup at the
\* filter with the flag of xpath.rs:60-69
FilterOutcomes(fs) ==
    { ROk(Some(x)) : x \in RunnerValues } \cup {ROk(None)} \cup
    { RErr(RunnerError(fs[i], kd, TRUE)) :
        i \in 1..Len(fs),
        kd \in {[name |-> "FilterInvalidInput"], [name |-> "FilterMissingInput"]} } \cup
    { RErr(RunnerError(fs[i], [name |-> "QueryInvalidXml"], FALSE)) : i \in 1..Len(fs) }

\* eval_predicate: Ok(()) or an error at the predicate
PredicateOutcomes ==
    {ROk("unit")} \cup
    { RErr(RunnerError(PredicateInfo, [name |-> kd], TRUE)) :
        kd \in {"AssertFailure", "AssertMismatchValue"} }

\* ------------------------------------------------------------ AssertResult::error
\* variant: the wildcard HTTP/* is not recognised
error_VersionNoWildcard(ar) ==
    IF ar.expected = "HTTP" \/ ar.actual = ar.expected
    THEN None
    ELSE Some(RunnerError(ar.source_info,
                          [name |-> "AssertVersion", actual |-> ar.actual], FALSE))

\* assert.rs:35-51
error_Version(ar) ==
    IF ar.expected = "HTTP" \/ ar.expected = "HTTP/*" \/ ar.actual = ar.expected
    THEN None
    ELSE Some(RunnerError(ar.source_info,
                          [name |-> "AssertVersion", actual |-> ar.actual], FALSE))

\* assert.rs:52-65
error_Status(ar) ==
    IF ar.actual = ar.expected
    THEN None
    ELSE Some(RunnerError(ar.source_info,
                          [name |-> "AssertStatus", actual |-> Decimal(ar.actual)], FALSE))

\* assert.rs:66-80
error_Header(ar) ==
    IF ar.actual.tag = "Err" THEN Some(ar.actual.err)
    ELSE IF ar.actual.ok = ar.expected THEN None
    ELSE Some(RunnerError(ar.source_info,
                          [name |-> "AssertHeaderValueError", actual |-> ar.actual.ok],
                          FALSE))

\* variant: the actual side is looked at before the expected side
error_BodyActualFirst(ar) ==
    IF ar.actual.tag = "Err" THEN Some(ar.actual.err)
    ELSE IF ar.expected.tag = "Err" THEN Some(ar.expected.err)
    ELSE IF ar.actual.ok = ar.expected.ok THEN None
    ELSE Some(RunnerError(ar.source_info,
                          [name |-> "AssertBodyValueError",
                           actual |-> ValueToString(ar.actual.ok),
                           expected |-> ValueToString(ar.expected.ok)],
                          FALSE))

\* assert.rs:81-100
error_Body(ar) ==
    IF ar.expected.tag = "Err" THEN Some(ar.expected.err)
    ELSE IF ar.actual.tag = "Err" THEN Some(ar.actual.err)
    ELSE IF ar.actual.ok = ar.expected.ok THEN None
    ELSE Some(RunnerError(ar.source_info,
                          [name |-> "AssertBodyValueError",
                           actual |-> ValueToString(ar.actual.ok),
                           expected |-> ValueToString(ar.expected.ok)],
                          FALSE))

\* assert.rs:101-106
error_Explicit(ar) ==
    IF ar.actual.tag = "Err" THEN Some(ar.actual.err)
    ELSE IF ar.predicate_result.tag = "Some" /\ ar.predicate_result.some.tag = "Err"
    THEN Some(ar.predicate_result.some.err)
    ELSE None

\* AssertResult::error, assert.rs:33-108
error(ar) ==
    CASE ar.variant = "Version" -> error_Version(ar)
      [] ar.variant = "Status" -> error_Status(ar)
      [] ar.variant = "Header" -> error_Header(ar)
      [] ar.variant = "Body" -> error_Body(ar)
      [] ar.variant = "Explicit" -> error_Explicit(ar)

\* ------------------------------------------------------------ eval_explicit_assert
\* variant: the position of the last filter of the chain
MissingInputAtLast(fs) ==
    RunnerError(fs[Len(fs)], [name |-> "FilterMissingInput"], TRUE)

\* assert.rs:134-143  FilterMissingInput at filters.first()
MissingInput(fs) ==
    RunnerError(fs[1], [name |-> "FilterMissingInput"], TRUE)

\* variant: the predicate is evaluated whatever the chain returned
RunsPredicateAlways(act) == TRUE

\* assert.rs:161-163  the predicate is evaluated when actual is Ok
RunsPredicate(act) == act.tag = "Ok"

\* an assert with 0..MaxFilters filters is handed to eval_explicit_assert
CallEvalExplicit ==
    /\ apc = "idle"
    /\ \E n \in 0..MaxFilters : filters' = [i \in 1..n |-> FilterInfo(i)]
    /\ apc' = "query"
    /\ UNCHANGED <<query_result, actual, assert_result, error_out, calls>>
    /\ UNCHANGED <<pvars, xvars, jvars>>

\* assert.rs:128-158 up to the call of eval_filters
EvalQuery ==
    /\ apc = "query"
    /\ \E q \in QueryOutcomes :
         /\ query_result' = q
         /\ IF filters = <<>>
            THEN actual' = q /\ apc' = "predicate"
            ELSE IF q.tag = "Ok"
            THEN IF q.ok.tag = "None"
                 THEN actual' = RErr(MissingInput(filters)) /\ apc' = "predicate"
                 ELSE actual' = actual /\ apc' = "filters"
            ELSE actual' = q /\ apc' = "predicate"
    /\ calls' = Append(calls, "eval_query")
    /\ UNCHANGED <<filters, assert_result, error_out>>
    /\ UNCHANGED <<pvars, xvars, jvars>>

\* assert.rs:144-154
EvalFilters ==
    /\ apc = "filters"
    /\ \E r \in FilterOutcomes(filters) : actual' = r
    /\ calls' = Append(calls, "eval_filters")
    /\ apc' = "predicate"
    /\ UNCHANGED <<filters, query_result, assert_result, error_out>>
    /\ UNCHANGED <<pvars, xvars, jvars>>

\* assert.rs:160-175
EvalPredicate ==
    /\ apc = "predicate"
    /\ IF RunsPredicate(actual)
       THEN /\ \E r \in PredicateOutcomes :
                 assert_result' = [variant |-> "Explicit",
                                   actual |-> actual,
                                   source_info |-> PredicateInfo,
                                   predicate_result |-> Some(r)]
            /\ calls' = Append(calls, "eval_predicate")
       ELSE /\ assert_result' = [variant |-> "Explicit",
                                 actual |-> actual,
                                 source_info |-> PredicateInfo,
                                 predicate_result |-> None]
            /\ calls' = calls
    /\ apc' = "built"
    /\ UNCHANGED <<filters, query_result, actual, error_out>>
    /\ UNCHANGED <<pvars, xvars, jvars>>

\* the results of the implicit asserts
Versions == {"HTTP", "HTTP/*", "HTTP/1.0", "HTTP/1.1"}
Statuses == {200, 404}
HeaderValues == {"text/html", "text/xml"}
ImplicitErrors ==
    { RunnerError(ImplicitInfo, [name |-> kd], FALSE) :
        kd \in {"TemplateVariableNotDefined", "QueryInvalidJson"} }
HeaderOutcomes == { ROk(h) : h \in HeaderValues } \cup { RErr(x) : x \in ImplicitErrors }
BodyOutcomes == { ROk(x) : x \in RunnerValues } \cup { RErr(x) : x \in ImplicitErrors }

\* the result of a version assert
VersionAssert ==
    /\ apc = "idle"
    /\ \E a \in Versions \ {"HTTP", "HTTP/*"}, e \in Versions :
         assert_result' = [variant |-> "Version", actual |-> a, expected |-> e,
                           source_info |-> ImplicitInfo]
    /\ apc' = "built"
    /\ UNCHANGED <<filters, query_result, actual, error_out, calls>>
    /\ UNCHANGED <<pvars, xvars, jvars>>

\* the result of a status assert
StatusAssert ==
    /\ apc = "idle"
    /\ \E a \in Statuses, e \in Statuses :
         assert_result' = [variant |-> "Status", actual |-> a, expected |-> e,
                           source_info |-> ImplicitInfo]
    /\ apc' = "built"
    /\ UNCHANGED <<filters, query_result, actual, error_out, calls>>
    /\ UNCHANGED <<pvars, xvars, jvars>>

\* the result of a header assert
HeaderAssert ==
    /\ apc = "idle"
    /\ \E a \in HeaderOutcomes, e \in HeaderValues :
         assert_result' = [variant |-> "Header", actual |-> a, expected |-> e,
                           source_info |-> ImplicitInfo]
    /\ apc' = "built"
    /\ UNCHANGED <<filters, query_result, actual, error_out, calls>>
    /\ UNCHANGED <<pvars, xvars, jvars>>

\* the result of a body assert
BodyAssert ==
    /\ apc = "idle"
    /\ \E a \in BodyOutcomes, e \in BodyOutcomes :
         assert_result' = [variant |-> "Body", actual |-> a, expected |-> e,
                           source_info |-> ImplicitInfo]
    /\ apc' = "built"
    /\ UNCHANGED <<filters, query_result, actual, error_out, calls>>
    /\ UNCHANGED <<pvars, xvars, jvars>>

\* AssertResult::error() is called on the result
CallError ==
    /\ apc = "built"
    /\ error_out' = error(assert_result)
    /\ apc' = "checked"
    /\ UNCHANGED <<filters, query_result, actual, assert_result, calls>>
    /\ UNCHANGED <<pvars, xvars, jvars>>

\* ------------------------------------------------------------ eval_expr
\* the variables of the entry: name is bound, age is not
Variables == [name |-> Value("string", "//user")]

\* where the template of the filter or query at si, and the variable
\* inside that template, stand: after the keyword
TemplateInfo(si) == SourceInfo(si.line, si.column + 3)
VariableInfo(si) == SourceInfo(si.line, si.column + 5)

\* expr.rs:27-36
eval_expr(expr, variables) ==
    IF expr.name \in DOMAIN variables
    THEN ROk(variables[expr.name])
    ELSE RErr(RunnerError(expr.source_info,
                          [name |-> "TemplateVariableNotDefined", var |-> expr.name],
                          FALSE))

\* a template is a literal text or one {{variable}}
Templates(si) ==
    { [source_info |-> TemplateInfo(si), literal |-> lit,
       expr |-> [name |-> n, source_info |-> VariableInfo(si)]] :
        lit \in BOOLEAN, n \in {"name", "age"} }

\* eval_template: the text of the template, or the error of eval_expr
eval_template(t, variables) ==
    IF t.literal THEN ROk("//user")
    ELSE LET r == eval_expr(t.expr, variables) IN
         IF r.tag = "Ok" THEN ROk(ValueToString(r.ok)) ELSE r

\* ------------------------------------------------------------ eval_xpath
\* the values handed to the filter
XpathInputs == RunnerValues \cup {Value("boolean", "true")}

\* xpath::eval_html / xpath::eval_xml: a value or an XpathError
XpathOutcomes ==
    { ROk(x) : x \in {Value("nodeset", "3"), Value("string", "Bob")} } \cup
    { RErr(e) : e \in {"InvalidXml", "InvalidHtml", "Eval", "Unsupported"} }

\* variant: every value is taken as markup
IsXmlStringAny(val) == TRUE

\* xpath.rs:33  Value::String(xml)
IsXmlString(val) == val.type = "string"

\* xpath.rs:38-41
InvalidInput(val, si, as) ==
    RErr(RunnerError(si, [name |-> "FilterInvalidInput", type |-> val.type], as))

\* variant: an evaluation failure is reported at the input's position
TranslateEvalAtInput(r, si, t) ==
    IF r.tag = "Ok" THEN ROk(Some(r.ok))
    ELSE IF r.err \in {"InvalidXml", "InvalidHtml"}
    THEN RErr(RunnerError(si, [name |-> "QueryInvalidXml"], FALSE))
    ELSE RErr(RunnerError(si, [name |-> "QueryInvalidXpathEval"], FALSE))

\* xpath.rs:58-74  the outcomes that are returned (Unsupported is not)
Translate(r, si, t) ==
    IF r.tag = "Ok" THEN ROk(Some(r.ok))
    ELSE IF r.err = "InvalidXml"
    THEN RErr(RunnerError(si, [name |-> "QueryInvalidXml"], FALSE))
    ELSE IF r.err = "InvalidHtml"
    THEN RErr(RunnerError(si, [name |-> "QueryInvalidXml"], FALSE))
    ELSE RErr(RunnerError(t.source_info, [name |-> "QueryInvalidXpathEval"], FALSE))

\* eval_xpath is called on a value, as a filter of an assert or of a capture
CallEvalXpath ==
    /\ xpc = "idle"
    /\ \E val \in XpathInputs, as \in BOOLEAN, i \in 1..MaxFilters :
       \E t \in Templates(FilterInfo(i)) :
         xin' = [entry |-> "eval_xpath", value |-> val, expr |-> t,
                 source_info |-> FilterInfo(i), assert |-> as, is_html |-> TRUE]
    /\ xpc' = "gate"
    /\ UNCHANGED <<xexpr, xresult, xcalls>>
    /\ UNCHANGED <<pvars, avars, jvars>>

\* xpath.rs:32-42
XpathGate ==
    /\ xpc = "gate"
    /\ IF IsXmlString(xin.value)
       THEN xpc' = "template" /\ xresult' = xresult
       ELSE /\ xpc' = "done"
            /\ xresult' = InvalidInput(xin.value, xin.source_info, xin.assert)
    /\ UNCHANGED <<xin, xexpr, xcalls>>
    /\ UNCHANGED <<pvars, avars, jvars>>

\* eval_xpath_string is called on a text, as the xpath query does
CallEvalXpathString ==
    /\ xpc = "idle"
    /\ \E val \in { x \in RunnerValues : x.type = "string" },
          t \in Templates(QueryInfo), html \in BOOLEAN :
         xin' = [entry |-> "eval_xpath_string", value |-> val, expr |-> t,
                 source_info |-> QueryInfo, assert |-> FALSE, is_html |-> html]
    /\ xpc' = "template"
    /\ UNCHANGED <<xexpr, xresult, xcalls>>
    /\ UNCHANGED <<pvars, avars, jvars>>

\* xpath.rs:52  eval_template(expr_template, variables)?
XpathTemplate ==
    /\ xpc = "template"
    /\ LET r == eval_template(xin.expr, Variables) IN
       /\ xcalls' = Append(xcalls, [fn |-> "eval_template", out |-> r])
       /\ IF r.tag = "Ok"
          THEN xexpr' = r.ok /\ xpc' = "query" /\ xresult' = xresult
          ELSE xexpr' = xexpr /\ xpc' = "done" /\ xresult' = r
    /\ UNCHANGED xin
    /\ UNCHANGED <<pvars, avars, jvars>>

\* xpath.rs:53-78
XpathQuery ==
    /\ xpc = "query"
    /\ \E r \in XpathOutcomes :
         /\ xcalls' = Append(xcalls, [fn |-> IF xin.is_html THEN "eval_html" ELSE "eval_xml",
                                      out |-> r])
         /\ IF r.tag = "Err" /\ r.err = "Unsupported"
            THEN xpc' = "panic" /\ xresult' = xresult
            ELSE xpc' = "done" /\ xresult' = Translate(r, xin.source_info, xin.expr)
    /\ UNCHANGED <<xin, xexpr>>
    /\ UNCHANGED <<pvars, avars, jvars>>

\* ------------------------------------------------------------ json/result.rs
\* serde_json::Value
JBool(b) == [json |-> "bool", value |-> b]
JString(str) == [json |-> "string", value |-> str]
JNumber(n) == [json |-> "number", value |-> n]
JArray(items) == [json |-> "array", items |-> items]
JObject(map) == [json |-> "object", fields |-> map]

\* assert.rs:109-117  AssertResult::line
line(ar) == ar.source_info.line

\* logger::error_string(filename, content, err, Some(entry_src_info), false)
error_string(e, entry_src_info) ==
    <<e.kind.name, e.source_info.line, e.source_info.column, entry_src_info.line>>

\* result.rs:332-361  AssertResult::to_json
AssertResult_to_json(ar, entry_src_info) ==
    LET success == error(ar).tag = "None" IN
    IF error(ar).tag = "Some"
    THEN JObject([success |-> JBool(success),
                  message |-> JString(error_string(error(ar).some, entry_src_info)),
                  line |-> JNumber(line(ar))])
    ELSE JObject([success |-> JBool(success),
                  line |-> JNumber(line(ar))])

\* result.rs:59-86  EntryResult::to_json
EntryResult_to_json(e) ==
    JObject([index |-> JNumber(e.entry_index),
             line |-> JNumber(e.source_info.line),
             calls |-> JArray([i \in 1..Len(e.calls) |-> e.calls[i]]),
             captures |-> JArray([i \in 1..Len(e.captures) |-> e.captures[i]]),
             asserts |-> JArray([i \in 1..Len(e.asserts) |->
                                    AssertResult_to_json(e.asserts[i], e.source_info)]),
             time |-> JNumber(e.time_in_ms)])

\* variant: success is worked out from the asserts of the entries
TopLevelSuccessRecomputed(hr) ==
    \A i \in 1..Len(hr.entries) :
        \A j \in 1..Len(hr.entries[i].asserts) :
            error(hr.entries[i].asserts[j]).tag = "None"

\* result.rs:47  self.success
TopLevelSuccess(hr) == hr.success

\* result.rs:35-56  HurlResult::to_json
HurlResult_to_json(hr, filename) ==
    JObject([filename |-> JString(filename),
             entries |-> JArray([i \in 1..Len(hr.entries) |->
                                    EntryResult_to_json(hr.entries[i])]),
             success |-> JBool(TopLevelSuccess(hr)),
             time |-> JNumber(hr.time_in_ms),
             cookies |-> JArray([i \in 1..Len(hr.cookies) |-> hr.cookies[i]])])

\* the assert results an entry is made of: a status that matches, a status
\* that does not, an explicit assert whose query failed
AssertPool ==
    << [variant |-> "Status", actual |-> 200, expected |-> 200,
        source_info |-> SourceInfo(2, 1)],
       [variant |-> "Status", actual |-> 200, expected |-> 404,
        source_info |-> SourceInfo(2, 1)],
       [variant |-> "Explicit",
        actual |-> RErr(RunnerError(QueryInfo, [name |-> "QueryInvalidXml"], FALSE)),
        source_info |-> SourceInfo(4, 22), predicate_result |-> None] >>

\* the sequences of at most n elements of S
SeqsUpTo(S, n) == UNION { [1..k -> S] : k \in 0..n }

\* the i-th entry of a run, with the asserts picked from the pool
EntryResult(i, picks) ==
    [entry_index |-> i,
     source_info |-> SourceInfo(10 * i, 1),
     calls |-> <<>>,
     captures |-> <<>>,
     asserts |-> [j \in 1..Len(picks) |-> AssertPool[picks[j]]],
     time_in_ms |-> 0]

\* a run is serialized
HurlResultToJson ==
    /\ jpc = "idle"
    /\ \E ok \in BOOLEAN,
          es \in SeqsUpTo(SeqsUpTo(1..Len(AssertPool), MaxAsserts), MaxEntries) :
         LET hr == [entries |-> [i \in 1..Len(es) |-> EntryResult(i, es[i])],
                    success |-> ok,
                    time_in_ms |-> 0,
                    cookies |-> <<>>]
         IN /\ jin' = [kind |-> "HurlResult", value |-> hr]
            /\ json_out' = HurlResult_to_json(hr, "test.hurl")
    /\ jpc' = "done"
    /\ UNCHANGED <<pvars, avars, xvars>>

\* a date of a certificate, and DateTime<Utc>::to_string
Date(y, m, d) == [year |-> y, month |-> m, day |-> d]
TwoDigits(n) == IF n < 10 THEN <<"0">> \o Decimal(n) ELSE Decimal(n)
DateToString(dt) ==
    Decimal(dt.year) \o <<"-">> \o TwoDigits(dt.month) \o <<"-">> \o TwoDigits(dt.day)
        \o <<" 00:00:00 UTC">>

\* result.rs:399-401  json_date
json_date(dt) == JString(DateToString(dt))

\* result.rs:254-273  Certificate::to_json
Certificate_to_json(c) ==
    JObject([subject |-> JString(c.subject),
             issue |-> JString(c.issuer),
             start_date |-> json_date(c.start_date),
             expire_date |-> json_date(c.expire_date),
             serial_number |-> JString(c.serial_number)])

Certificates ==
    { [subject |-> sub, issuer |-> iss, start_date |-> sd, expire_date |-> ed,
       serial_number |-> sn] :
        sub \in {"CN=example.com", "CN=localhost"},
        iss \in {"CN=CA", "CN=example.com"},
        sd \in {Date(2024, 1, 1), Date(2023, 11, 30)},
        ed \in {Date(2025, 1, 1), Date(2024, 12, 31)},
        sn \in {"01AB", "FF"} }

\* the certificate of a response is serialized
CertificateToJson ==
    /\ jpc = "idle"
    /\ \E c \in Certificates :
         /\ jin' = [kind |-> "Certificate", value |-> c]
         /\ json_out' = Certificate_to_json(c)
    /\ jpc' = "done"
    /\ UNCHANGED <<pvars, avars, xvars>>

\* ------------------------------------------------------------ specification
\* every source text up to MaxLen characters
RECURSIVE Texts(_)
Texts(n) ==
    IF n = 0 THEN {<<>>}
    ELSE Texts(n - 1) \cup
         { Append(t, c) : t \in { u \in Texts(n - 1) : Len(u) = n - 1 }, c \in Chars }

\* the combinators before a call
ParserIdle ==
    /\ op = "none"
    /\ pc = "idle"
    /\ nfs = 0
    /\ pos = 0
    /\ start = InitState
    /\ v = <<>>
    /\ result = NoResult
    /\ fdef = <<>>
    /\ pre = InitState
    /\ applied = <<>>

\* the assertion evaluator before a call
EvaluatorIdle ==
    /\ apc = "idle"
    /\ filters = <<>>
    /\ query_result = NoOutcome
    /\ actual = NoOutcome
    /\ assert_result = [variant |-> "none"]
    /\ error_out = None
    /\ calls = <<>>

\* the xpath filter before a call
FilterIdle ==
    /\ xpc = "idle"
    /\ xin = [entry |-> "none"]
    /\ xexpr = ""
    /\ xresult = NoOutcome
    /\ xcalls = <<>>

\* the serializer before a call
SerializerIdle ==
    /\ jpc = "idle"
    /\ jin = [kind |-> "none"]
    /\ json_out = [json |-> "none"]

\* A combinator is called on a reader that has read some prefix of its text.
Init ==
    /\ buffer \in Texts(MaxLen)
    /\ \E c \in 0..MaxLen :
         /\ c <= Len(buffer)
         /\ state = readn(InitState, c)
    /\ ParserIdle
    /\ EvaluatorIdle
    /\ FilterIdle
    /\ SerializerIdle

Next ==
    \/ CallChoice
    \/ ChoiceStep
    \/ CallZeroOrMore
    \/ ZomEof
    \/ ZomStep

Spec == Init /\ [][Next]_vars

\* zero_or_more alone; it runs to completion without suspension
ZomNext ==
    \/ CallZeroOrMore
    \/ ZomEof
    \/ ZomStep

ZomSpec == Init /\ [][ZomNext]_vars /\ WF_vars(ZomNext)

\* the assertion evaluator
AssertInit ==
    /\ buffer = <<>>
    /\ state = InitState
    /\ ParserIdle
    /\ EvaluatorIdle
    /\ FilterIdle
    /\ SerializerIdle

AssertNext ==
    \/ CallEvalExplicit
    \/ EvalQuery
    \/ EvalFilters
    \/ EvalPredicate
    \/ VersionAssert
    \/ StatusAssert
    \/ HeaderAssert
    \/ BodyAssert
    \/ CallError

AssertSpec == AssertInit /\ [][AssertNext]_vars

\* the xpath filter
XpathNext ==
    \/ CallEvalXpath
    \/ XpathGate
    \/ CallEvalXpathString
    \/ XpathTemplate
    \/ XpathQuery

XpathSpec == AssertInit /\ [][XpathNext]_vars

\* the serializer
JsonNext ==
    \/ HurlResultToJson
    \/ CertificateToJson

JsonSpec == AssertInit /\ [][JsonNext]_vars

\* ------------------------------------------------------------ properties
\* r is a recoverable failure / a decisive outcome
RecoverableFailure(r) == r.tag = "Err" /\ r.err.recoverable = TRUE
Decisive(r) == r.tag = "Ok" \/ (r.tag = "Err" /\ r.err.recoverable = FALSE)
Returned == pc = "done"
LastApplied == applied[Len(applied)]

\* C1: choice applies its alternatives left to right, each at most once; an
\* alternative is applied only after every earlier one failed recoverably;
\* a success or non-recoverable failure of a non-last alternative ends the
\* call at once with that outcome as the result; the outcome of the last
\* alternative is the result unchanged.
ChoiceFirstDecisive ==
    op = "choice" =>
        /\ Len(applied) <= nfs
        /\ \A i \in 1..Len(applied) :
             /\ applied[i].f = i - 1
             /\ \A j \in 1..(i - 1) : RecoverableFailure(applied[j].res)
             /\ (applied[i].f < nfs - 1 /\ Decisive(applied[i].res)) =>
                    /\ i = Len(applied)
                    /\ Returned
                    /\ result = applied[i].res
             /\ applied[i].f = nfs - 1 =>
                    /\ i = Len(applied)
                    /\ Returned
                    /\ result = applied[i].res
        /\ Returned =>
             /\ Len(applied) >= 1
             /\ result = LastApplied.res
             /\ (LastApplied.f = nfs - 1 \/ Decisive(LastApplied.res))

\* C1 witness: of three alternatives the first failed recoverably and the
\* second succeeded; the third was never applied.
ChoiceFirstDecisiveSeen ==
    /\ op = "choice"
    /\ Returned
    /\ nfs = 3
    /\ Len(applied) = 2
    /\ RecoverableFailure(applied[1].res)
    /\ result.tag = "Ok"

\* C2: every alternative of choice starts from the reader state of the call;
\* while the loop runs the reader is at that state, and on return it is at
\* that state advanced by what the alternative that returned consumed.
ChoiceStartsFromCallState ==
    op = "choice" =>
        /\ \A i \in 1..Len(applied) : applied[i].from = pre
        /\ pc = "loop" => state = pre
        /\ Returned => state = readn(pre, LastApplied.to.cursor - pre.cursor)

\* C2 witness: two alternatives consumed input (one of them a line break)
\* before failing recoverably, then the last one consumed some and returned.
ChoiceStartsFromCallStateSeen ==
    /\ op = "choice"
    /\ Returned
    /\ nfs = 3
    /\ Len(applied) = 3
    /\ applied[1].to.pos.line > pre.pos.line
    /\ applied[2].to.cursor > pre.cursor
    /\ applied[1].to # applied[2].to
    /\ state.cursor > pre.cursor

\* C3: when choice or zero_or_more returns a recoverable error, the reader
\* is where it was when the combinator was called.
NoConsumptionOnRecoverable ==
    (Returned /\ result.tag = "Err" /\ result.err.recoverable) => state = pre

\* C4: when an application of f fails recoverably, zero_or_more returns Ok
\* with the values of the preceding successes in order, and the reader is
\* where the last success left it.
ZomRecoverableStops ==
    (op = "zero_or_more" /\ Returned /\ Len(applied) >= 1
        /\ RecoverableFailure(LastApplied.res)) =>
        LET n == Len(applied) IN
        /\ result.tag = "Ok"
        /\ result.val = [i \in 1..(n - 1) |-> applied[i].res.val]
        /\ \A i \in 1..(n - 1) : applied[i].res.tag = "Ok"
        /\ state = LastApplied.from
        /\ state = IF n = 1 THEN pre ELSE applied[n - 1].to

\* C4 witness: two successes, then a failure that read across a line break
\* before failing recoverably.
ZomRecoverableStopsSeen ==
    /\ op = "zero_or_more"
    /\ Returned
    /\ Len(applied) = 3
    /\ RecoverableFailure(applied[3].res)
    /\ applied[3].to.pos.line > applied[3].from.pos.line
    /\ applied[1].res.val # applied[2].res.val
    /\ state.cursor > pre.cursor

\* C5: a non-recoverable failure of f is returned by zero_or_more as Err
\* with the same error, at once, without the values collected before.
ZomFatalPropagates ==
    op = "zero_or_more" =>
        \A i \in 1..Len(applied) :
            (applied[i].res.tag = "Err" /\ ~applied[i].res.err.recoverable) =>
                /\ i = Len(applied)
                /\ Returned
                /\ result = [tag |-> "Err", val |-> 0, err |-> applied[i].res.err]

\* C5 witness: a non-recoverable failure after a success.
ZomFatalPropagatesSeen ==
    /\ op = "zero_or_more"
    /\ Returned
    /\ Len(applied) = 2
    /\ v # <<>>
    /\ applied[2].res.tag = "Err"
    /\ ~applied[2].res.err.recoverable

\* every recoverable failure of f so far left the reader where it started
RecoverableFailuresConsumeNothing ==
    \A i \in 1..Len(applied) :
        RecoverableFailure(applied[i].res) => applied[i].to = applied[i].from

\* C6 as stated: zero_or_more returns Ok, never Err, when every recoverable
\* failure of f leaves the reader where it started.
ZomNeverErr ==
    (op = "zero_or_more" /\ Returned /\ RecoverableFailuresConsumeNothing) =>
        result.tag = "Ok"

\* f succeeded without consuming anything
StalledSuccess ==
    \E i \in 1..Len(applied) :
        applied[i].res.tag = "Ok" /\ applied[i].to = applied[i].from
\* f failed non-recoverably
FatalFailure ==
    \E i \in 1..Len(applied) :
        applied[i].res.tag = "Err" /\ ~applied[i].res.err.recoverable

\* zero_or_more returned Ok with the accumulated list
ZomReturnedList ==
    IF op = "zero_or_more" /\ Returned /\ result.tag = "Ok"
    THEN result.val = v
    ELSE FALSE

\* C6 amended: zero_or_more returns unless f succeeds without consuming;
\* it returns Ok unless f failed non-recoverably; f is never applied at end
\* of input, where the accumulated list is returned.
ZomTerminatesOk ==
    /\ [](op = "zero_or_more" => <>(Returned \/ StalledSuccess))
    /\ []((op = "zero_or_more" /\ Returned /\ ~FatalFailure) =>
            ZomReturnedList)
    /\ [](op = "zero_or_more" =>
            \A i \in 1..Len(applied) : applied[i].from.cursor < Len(buffer))
    /\ []((op = "zero_or_more" /\ pc = "loop" /\ state.cursor >= Len(buffer)) =>
            <>ZomReturnedList)

\* C6 witness: zero_or_more returned at end of input with what it collected.
ZomTerminatesOkSeen ==
    /\ op = "zero_or_more"
    /\ Returned
    /\ Len(applied) = 2
    /\ result.tag = "Ok"
    /\ Len(result.val) = 2
    /\ state.cursor = Len(buffer)
    /\ LastApplied.res.tag = "Ok"

\* eval_explicit_assert is past the query / has built its result
QueryDone == apc \in {"filters", "predicate", "built", "checked"}
ChainDone == apc \in {"predicate", "built", "checked"}
ExplicitBuilt == apc \in {"built", "checked"} /\ assert_result.variant = "Explicit"
Called(c) == \E i \in 1..Len(calls) : calls[i] = c

\* C7: eval_explicit_assert calls the query, then the filter chain, then
\* the predicate, each at most once and only after the earlier ones
\* returned Ok; a query error is `actual`, untouched; the predicate is
\* evaluated exactly when `actual` is Ok; predicate_result is None exactly
\* when `actual` is Err.
ExplicitStagesInOrder ==
    /\ calls \in {<<>>, <<"eval_query">>,
                  <<"eval_query", "eval_filters">>,
                  <<"eval_query", "eval_predicate">>,
                  <<"eval_query", "eval_filters", "eval_predicate">>}
    /\ Called("eval_filters") => (query_result.tag = "Ok" /\ filters # <<>>)
    /\ (ChainDone /\ query_result.tag = "Err") =>
            (actual = query_result /\ ~Called("eval_filters"))
    /\ Called("eval_predicate") => actual.tag = "Ok"
    /\ ExplicitBuilt =>
            /\ assert_result.actual = actual
            /\ (assert_result.predicate_result.tag = "None") <=> (actual.tag = "Err")
            /\ (assert_result.predicate_result.tag = "Some") <=> (actual.tag = "Ok")
            /\ Called("eval_predicate") <=> (actual.tag = "Ok")

\* C7 witness: the filter chain failed after the query succeeded, and the
\* result was built without the predicate.
ExplicitStagesInOrderSeen ==
    /\ ExplicitBuilt
    /\ calls = <<"eval_query", "eval_filters">>
    /\ actual.tag = "Err"
    /\ assert_result.predicate_result.tag = "None"

\* C8: when the query returns Ok(None) and there are filters, `actual` is
\* Err(FilterMissingInput) at the first filter and no filter is evaluated;
\* without filters Ok(None) is `actual`.
MissingInputAtFirstFilter ==
    (ChainDone /\ query_result.tag = "Ok" /\ query_result.ok.tag = "None") =>
        IF Len(filters) = 0
        THEN actual.tag = "Ok" /\ actual.ok.tag = "None"
        ELSE /\ actual.tag = "Err"
             /\ actual.err.kind.name = "FilterMissingInput"
             /\ actual.err.source_info = FilterInfo(1)
             /\ actual.err.source_info # QueryInfo
             /\ ~Called("eval_filters")

\* C8 witness: a chain of two filters over a query that returned Ok(None).
MissingInputAtFirstFilterSeen ==
    /\ ExplicitBuilt
    /\ Len(filters) = 2
    /\ query_result.tag = "Ok"
    /\ query_result.ok.tag = "None"
    /\ actual.tag = "Err"

\* the pass condition of the decision table
Passes(ar) ==
    CASE ar.variant = "Version" ->
            ar.expected = "HTTP" \/ ar.expected = "HTTP/*" \/ ar.actual = ar.expected
      [] ar.variant = "Status" -> ar.actual = ar.expected
      [] ar.variant = "Header" ->
            IF ar.actual.tag = "Ok" THEN ar.actual.ok = ar.expected ELSE FALSE
      [] ar.variant = "Body" ->
            IF ar.actual.tag = "Ok" /\ ar.expected.tag = "Ok"
            THEN ar.actual.ok = ar.expected.ok ELSE FALSE
      [] ar.variant = "Explicit" ->
            IF ar.actual.tag = "Ok" /\ ar.predicate_result.tag = "Some"
            THEN ar.predicate_result.some.tag = "Ok" ELSE FALSE

ExpectedError(ar) ==
    CASE ar.variant = "Body" ->
            IF ar.expected.tag = "Err" THEN Some(ar.expected.err)
            ELSE IF ar.actual.tag = "Err" THEN Some(ar.actual.err)
            ELSE IF ar.actual.ok # ar.expected.ok
            THEN Some([source_info |-> ar.source_info,
                       kind |-> [name |-> "AssertBodyValueError",
                                 actual |-> ar.actual.ok.text,
                                 expected |-> ar.expected.ok.text],
                       assert |-> FALSE])
            ELSE None
      [] ar.variant = "Header" ->
            IF ar.actual.tag = "Err" THEN Some(ar.actual.err)
            ELSE IF ar.actual.ok # ar.expected
            THEN Some([source_info |-> ar.source_info,
                       kind |-> [name |-> "AssertHeaderValueError",
                                 actual |-> ar.actual.ok],
                       assert |-> FALSE])
            ELSE None
      [] ar.variant = "Explicit" ->
            IF ar.actual.tag = "Err" THEN Some(ar.actual.err)
            ELSE IF ar.predicate_result.tag = "None" THEN None
            ELSE IF ar.predicate_result.some.tag = "Err"
            THEN Some(ar.predicate_result.some.err)
            ELSE None

\* C10: for Body the expected side's error comes first, then the actual
\* side's, then AssertBodyValueError; for Header the inner error, else
\* AssertHeaderValueError; for Explicit the query/filter error, else the
\* predicate error; inner errors are returned unchanged.
ErrorPrecedence ==
    (apc = "checked" /\ assert_result.variant \in {"Body", "Header", "Explicit"}) =>
        error_out = ExpectedError(assert_result)

\* C10 witness: a Body assert whose two sides failed differently reports
\* the expected side's error.
ErrorPrecedenceSeen ==
    /\ apc = "checked"
    /\ assert_result.variant = "Body"
    /\ assert_result.actual.tag = "Err"
    /\ assert_result.expected.tag = "Err"
    /\ assert_result.actual.err # assert_result.expected.err
    /\ error_out = Some(assert_result.expected.err)

\* the filter was entered through eval_xpath / has returned
ThroughEvalXpath == xin.entry = "eval_xpath"
XpathReturned == xpc = "done"
XpathCalled(f) == \E i \in 1..Len(xcalls) : xcalls[i].fn = f

\* C11: for a value that is not a string eval_xpath returns
\* FilterInvalidInput(type name) at the given position, and neither the
\* template is resolved nor the markup query evaluated.
XpathRejectsNonString ==
    (ThroughEvalXpath /\ xin.value.type # "string") =>
        /\ xcalls = <<>>
        /\ xpc \in {"gate", "done"}
        /\ XpathReturned =>
             /\ xresult.tag = "Err"
             /\ xresult.err.kind = [name |-> "FilterInvalidInput", type |-> xin.value.type]
             /\ xresult.err.source_info = xin.source_info

\* C11 witness: a boolean handed to a filter whose template refers to an
\* undefined variable.
XpathRejectsNonStringSeen ==
    /\ ThroughEvalXpath
    /\ XpathReturned
    /\ xin.value.type = "boolean"
    /\ ~xin.expr.literal
    /\ xin.expr.expr.name = "age"
    /\ xresult.tag = "Err"

\* the template of the call can be resolved
TemplateResolves == xin.expr.literal \/ xin.expr.expr.name \in DOMAIN Variables
\* the markup query answered the error e
QueryAnswered(e) ==
    IF Len(xcalls) = 2
    THEN (IF xcalls[2].out.tag = "Err" THEN xcalls[2].out.err = e ELSE FALSE)
    ELSE FALSE

\* C12: for a string input, a template failure is returned as it is
\* without a markup query; otherwise Ok(v) becomes Ok(Some(v)), InvalidXml
\* and InvalidHtml become QueryInvalidXml at the input's position, Eval
\* becomes QueryInvalidXpathEval at the template's position, and
\* Unsupported aborts.
XpathTranslatesOutcome ==
    (xpc \in {"done", "panic"} /\ xin.value.type = "string") =>
        IF ~TemplateResolves
        THEN /\ XpathReturned
             /\ Len(xcalls) = 1
             /\ xresult = [tag |-> "Err",
                           err |-> [source_info |-> xin.expr.expr.source_info,
                                    kind |-> [name |-> "TemplateVariableNotDefined",
                                              var |-> xin.expr.expr.name],
                                    assert |-> FALSE]]
        ELSE /\ Len(xcalls) = 2
             /\ xcalls[2].fn = IF xin.is_html THEN "eval_html" ELSE "eval_xml"
             /\ xcalls[2].out.tag = "Ok" =>
                    (XpathReturned /\ xresult = [tag |-> "Ok",
                                                 ok |-> [tag |-> "Some",
                                                         some |-> xcalls[2].out.ok]])
             /\ (QueryAnswered("InvalidXml") \/ QueryAnswered("InvalidHtml")) =>
                    /\ XpathReturned
                    /\ xresult.tag = "Err"
                    /\ xresult.err.kind.name = "QueryInvalidXml"
                    /\ xresult.err.source_info = xin.source_info
             /\ QueryAnswered("Eval") =>
                    /\ XpathReturned
                    /\ xresult.tag = "Err"
                    /\ xresult.err.kind.name = "QueryInvalidXpathEval"
                    /\ xresult.err.source_info = xin.expr.source_info
                    /\ xresult.err.source_info # xin.source_info
             /\ QueryAnswered("Unsupported") <=> (xpc = "panic")
             /\ xpc = "panic" => xresult.tag = "none"

\* C12 witness: the markup query failed to evaluate a resolved expression.
XpathTranslatesOutcomeSeen ==
    /\ XpathReturned
    /\ QueryAnswered("Eval")
    /\ ~xin.expr.literal
    /\ xresult.tag = "Err"
    /\ xresult.err.source_info = TemplateInfo(xin.source_info)

\* C15: every error eval_xpath returns carries the assert flag it was
\* called with.
XpathErrorsCarryAssertFlag ==
    (ThroughEvalXpath /\ XpathReturned /\ xresult.tag = "Err") =>
        xresult.err.assert = xin.assert

\* the serializer has produced the document of a run / of a certificate
RunSerialized == jpc = "done" /\ jin.kind = "HurlResult"
CertificateSerialized == jpc = "done" /\ jin.kind = "Certificate"
\* the object of assert j of entry i in the document
AssertObject(i, j) == json_out.fields.entries.items[i].fields.asserts.items[j]

\* C13: every assert object has success = (error() is None), has message
\* exactly when success is false, and has line; the asserts array of an
\* entry has one object per AssertResult, in order; the top-level success
\* is the one of the HurlResult.
AssertsSerializedInOrder ==
    RunSerialized =>
        LET hr == jin.value IN
        /\ json_out.fields.success = [json |-> "bool", value |-> hr.success]
        /\ Len(json_out.fields.entries.items) = Len(hr.entries)
        /\ \A i \in 1..Len(hr.entries) :
             /\ Len(json_out.fields.entries.items[i].fields.asserts.items)
                    = Len(hr.entries[i].asserts)
             /\ \A j \in 1..Len(hr.entries[i].asserts) :
                  LET ar == hr.entries[i].asserts[j]
                      passed == error(ar).tag = "None"
                      keys == DOMAIN AssertObject(i, j).fields
                  IN /\ AssertObject(i, j).fields.success = [json |-> "bool", value |-> passed]
                     /\ ("message" \in keys) <=> ~passed
                     /\ "line" \in keys
                     /\ keys \subseteq {"success", "message", "line"}
                     /\ AssertObject(i, j).fields.line
                            = [json |-> "number", value |-> ar.source_info.line]

\* C13 witness: a run reported successful whose first entry has a failed
\* assert followed by a passed one on another line.
AssertsSerializedInOrderSeen ==
    /\ RunSerialized
    /\ jin.value.success
    /\ Len(jin.value.entries) = 2
    /\ Len(jin.value.entries[1].asserts) = 2
    /\ AssertObject(1, 1).fields.success.value = FALSE
    /\ "message" \in DOMAIN AssertObject(1, 1).fields
    /\ AssertObject(1, 2).fields.success.value = TRUE
    /\ AssertObject(1, 2).fields.line.value # AssertObject(1, 1).fields.line.value

\* C14: a Certificate serializes to an object with exactly the keys
\* subject, issuer, start_date, expire_date and serial_number, each holding
\* a string.
CertificateHasFiveKeys ==
    CertificateSerialized =>
        /\ json_out.json = "object"
        /\ DOMAIN json_out.fields =
              {"subject", "issuer", "start_date", "expire_date", "serial_number"}
        /\ \A k \in DOMAIN json_out.fields : json_out.fields[k].json = "string"
        /\ json_out.fields["issuer"].value = jin.value.issuer

====
